---- MODULE Spec2Model ----
(***************************************************************************)
(* Model of src/app.py (Flask backend of the dating demo).                 *)
(*                                                                         *)
(* Text is a sequence of one-character strings.  The regular-expression    *)
(* passes of the sanitizer, the JSON decoder used on upstream bodies, the  *)
(* per-object matcher collect_from_obj and the request handlers            *)
(* api_proxy_chat, api_people and api_discard are modelled as the code     *)
(* computes them.                                                          *)
(***************************************************************************)
EXTENDS Integers, Sequences, FiniteSets, TLC

VARIABLES
    \* one invocation of api_proxy_chat
    pc,         \* "idle" | "waiting" (inside requests.post) | "done" (response returned)
    request,    \* the JSON body of the request: [model, messages]
    sent,       \* the requests.post calls of this invocation, in order
    status,     \* resp.status_code
    text_body,  \* resp.text
    jr,         \* the whole-body parse, None when it failed
    whole,      \* pieces after the whole-body pass, and whether it raised
    lineRan,    \* whether the line-by-line pass ran
    pieces,     \* pieces after extraction, and whether it raised
    stage,      \* "none" | "raised" | "sanitized": how far the handler got after the call
    reply_text, \* the text handed to the sanitizer
    sanitized,  \* s, the sanitized text
    outcome,    \* the response returned to the caller
    \* the sanitizers as pure functions
    sanFn,      \* which sanitizer is exercised: "inline" or "ai"
    sanPc,      \* "input" | "once" | "twice"
    sanX,       \* the text handed to the sanitizer
    sanY,       \* sanitizer(sanX)
    sanZ,       \* sanitizer(sanY)
    \* one session of /api/people and /api/discard
    people,     \* what load_people() returns: the persons of data/people.xml
    discarded,  \* session['discarded']
    sessOut     \* the last response of the two endpoints

proxyVars == <<pc, request, sent, status, text_body, jr, whole, lineRan, pieces, stage,
               reply_text, sanitized, outcome>>

sanVars == <<sanFn, sanPc, sanX, sanY, sanZ>>

sessVars == <<people, discarded, sessOut>>

vars == <<proxyVars, sanVars, sessVars>>

(***************************************************************************)
(* Bounds                                                                  *)
(***************************************************************************)
MaxTextLen == 4

(***************************************************************************)
(* Characters and text helpers                                             *)
(***************************************************************************)
NL == "\n"

\* re's \s and str.strip(): the whitespace characters the model uses
IsSpace(c) == c \in {" ", "\n", "\t"}

UpperLetters == <<"A", "B", "C", "D", "E", "F", "G", "H", "I", "J", "K", "L", "M",
                  "N", "O", "P", "Q", "R", "S", "T", "U", "V", "W", "X", "Y", "Z">>

LowerLetters == <<"a", "b", "c", "d", "e", "f", "g", "h", "i", "j", "k", "l", "m",
                  "n", "o", "p", "q", "r", "s", "t", "u", "v", "w", "x", "y", "z">>

Digits == <<"0", "1", "2", "3", "4", "5", "6", "7", "8", "9">>

Range(f) == {f[i] : i \in DOMAIN f}

\* re's \w
IsWord(c) == c \in Range(UpperLetters) \cup Range(LowerLetters) \cup Range(Digits) \cup {"_"}

\* case folding used by re.I on a back-reference
Lower(c) ==
    IF c \in Range(UpperLetters)
    THEN LowerLetters[CHOOSE i \in DOMAIN UpperLetters : UpperLetters[i] = c]
    ELSE c

\* the punctuation class [.,!?;:]
IsPunct(c) == c \in {".", ",", "!", "?", ";", ":"}

MinOf(S) == CHOOSE x \in S : \A y \in S : x <= y

\* all texts over alphabet A of length at most n
TextsUpTo(A, n) == UNION {[1..k -> A] : k \in 0..n}

\* s[i..] (empty when i is past the end)
From(s, i) == SubSeq(s, i, Len(s))

\* first index >= i that holds no whitespace (Len(s)+1 when none): end of a \s+ run
RunEnd(s, i) ==
    LET stop == {k \in i..Len(s) : ~IsSpace(s[k])}
    IN  IF stop = {} THEN Len(s) + 1 ELSE MinOf(stop)

\* first index >= i that holds no word character: end of a \w+ run
WordEnd(s, i) ==
    LET stop == {k \in i..Len(s) : ~IsWord(s[k])}
    IN  IF stop = {} THEN Len(s) + 1 ELSE MinOf(stop)

\* str.strip()
Strip(s) ==
    LET keep == {k \in 1..Len(s) : ~IsSpace(s[k])}
    IN  IF keep = {} THEN <<>>
        ELSE SubSeq(s, MinOf(keep), CHOOSE x \in keep : \A y \in keep : x >= y)

(***************************************************************************)
(* The sanitizer passes (src/app.py 295-302 and 86-89)                     *)
(***************************************************************************)

\* end of the shortest match of  open .*? close  whose open is at i-1: the first
\* close at or after i with no newline before it ('.' does not match "\n"); 0 if none
ClosePos(s, close, i) ==
    LET cands == {k \in i..Len(s) : s[k] = close /\ \A m \in i..(k - 1) : s[m] # NL}
    IN  IF cands = {} THEN 0 ELSE MinOf(cands)

\* first index >= i that holds c (Len(s)+1 when none)
NextChar(s, c, i) ==
    LET hits == {k \in i..Len(s) : s[k] = c}
    IN  IF hits = {} THEN Len(s) + 1 ELSE MinOf(hits)

\* first index >= i that holds whitespace: where a \s+ match can start
NextSpace(s, i) ==
    LET hits == {k \in i..Len(s) : IsSpace(s[k])}
    IN  IF hits = {} THEN Len(s) + 1 ELSE MinOf(hits)

\* first index >= i where \b(\w+) can match: a word character after a non-word one
NextWordStart(s, i) ==
    LET hits == {k \in i..Len(s) : IsWord(s[k]) /\ (k = 1 \/ ~IsWord(s[k - 1]))}
    IN  IF hits = {} THEN Len(s) + 1 ELSE MinOf(hits)

\* re.sub scans left to right: text before the next possible match start is
\* copied, a match is replaced, and the scan resumes after it
RECURSIVE StripDelimitedFrom(_, _, _, _)
StripDelimitedFrom(s, open, close, i) ==
    LET o == NextChar(s, open, i)
    IN  IF o > Len(s) THEN From(s, i)
        ELSE IF ClosePos(s, close, o + 1) # 0
             THEN SubSeq(s, i, o - 1)
                  \o StripDelimitedFrom(s, open, close, ClosePos(s, close, o + 1) + 1)
             ELSE SubSeq(s, i, o) \o StripDelimitedFrom(s, open, close, o + 1)

\* re.sub(r"\[.*?\]", '', s)
StripBrackets(s) == StripDelimitedFrom(s, "[", "]", 1)

\* re.sub(r"<.*?>", '', s)
StripAngles(s) == StripDelimitedFrom(s, "<", ">", 1)

\* In the four passes below b..e-1 is a maximal whitespace run.  \s+ followed
\* by a non-space character matches from b or from no position of the run.
RECURSIVE AposBothFrom(_, _)
AposBothFrom(s, i) ==
    LET b == NextSpace(s, i)
        e == RunEnd(s, b)
    IN  IF b > Len(s) THEN From(s, i)
        ELSE IF e + 1 <= Len(s) /\ s[e] = "'" /\ IsSpace(s[e + 1])
             THEN SubSeq(s, i, b - 1) \o <<"'">> \o AposBothFrom(s, RunEnd(s, e + 1))
             ELSE SubSeq(s, i, e - 1) \o AposBothFrom(s, e)

\* re.sub(r"\s+'\s+", "'", s)
AposBoth(s) == AposBothFrom(s, 1)

RECURSIVE AposLeftFrom(_, _)
AposLeftFrom(s, i) ==
    LET b == NextSpace(s, i)
        e == RunEnd(s, b)
    IN  IF b > Len(s) THEN From(s, i)
        ELSE IF e <= Len(s) /\ s[e] = "'"
             THEN SubSeq(s, i, b - 1) \o <<"'">> \o AposLeftFrom(s, e + 1)
             ELSE SubSeq(s, i, e - 1) \o AposLeftFrom(s, e)

\* re.sub(r"\s+'", "'", s)
AposLeft(s) == AposLeftFrom(s, 1)

RECURSIVE AposRightFrom(_, _)
AposRightFrom(s, i) ==
    LET a == NextChar(s, "'", i)
    IN  IF a > Len(s) THEN From(s, i)
        ELSE IF a + 1 <= Len(s) /\ IsSpace(s[a + 1])
             THEN SubSeq(s, i, a) \o AposRightFrom(s, RunEnd(s, a + 1))
             ELSE SubSeq(s, i, a) \o AposRightFrom(s, a + 1)

\* re.sub(r"'\s+", "'", s)
AposRight(s) == AposRightFrom(s, 1)

\* s holds word w (compared case-insensitively) at p, ending at a word boundary
WordAt(s, p, w) ==
    /\ p + Len(w) - 1 <= Len(s)
    /\ \A k \in 1..Len(w) : Lower(s[p + k - 1]) = Lower(w[k])
    /\ (p + Len(w) > Len(s) \/ ~IsWord(s[p + Len(w)]))

\* end of the longest match of (?:\s+\1\b)* starting at p, \1 being w
RECURSIVE RepeatEnd(_, _, _)
RepeatEnd(s, p, w) ==
    IF p <= Len(s) /\ IsSpace(s[p]) /\ WordAt(s, RunEnd(s, p), w)
    THEN RepeatEnd(s, RunEnd(s, p) + Len(w), w)
    ELSE p

\* (\w+) is the whole word at a word start: a shorter prefix is followed by a
\* word character, where \s+ cannot match.  The word is kept; its repeats, if
\* any, are dropped.
RECURSIVE CollapseRepeatsFrom(_, _)
CollapseRepeatsFrom(s, i) ==
    LET b  == NextWordStart(s, i)
        we == WordEnd(s, b)
    IN  IF b > Len(s) THEN From(s, i)
        ELSE SubSeq(s, i, we - 1)
             \o CollapseRepeatsFrom(s, RepeatEnd(s, we, SubSeq(s, b, we - 1)))

\* re.sub(r"\b(\w+)(?:\s+\1\b)+", r"\1", s, flags=re.I)
CollapseRepeats(s) == CollapseRepeatsFrom(s, 1)

RECURSIVE PunctSpaceFrom(_, _)
PunctSpaceFrom(s, i) ==
    LET b == NextSpace(s, i)
        e == RunEnd(s, b)
    IN  IF b > Len(s) THEN From(s, i)
        ELSE IF e <= Len(s) /\ IsPunct(s[e])
             THEN SubSeq(s, i, b - 1) \o <<s[e]>> \o PunctSpaceFrom(s, e + 1)
             ELSE SubSeq(s, i, e - 1) \o PunctSpaceFrom(s, e)

\* re.sub(r"\s+([.,!?;:])", r"\1", s)
PunctSpace(s) == PunctSpaceFrom(s, 1)

RECURSIVE CollapseSpaceFrom(_, _)
CollapseSpaceFrom(s, i) ==
    LET b == NextSpace(s, i)
    IN  IF b > Len(s) THEN From(s, i)
        ELSE SubSeq(s, i, b - 1) \o <<" ">> \o CollapseSpaceFrom(s, RunEnd(s, b))

\* re.sub(r"\s+", ' ', s)
CollapseSpace(s) == CollapseSpaceFrom(s, 1)

\* the inline sanitizer of api_proxy_chat
Sanitize(t) ==
    Strip(CollapseSpace(PunctSpace(CollapseRepeats(
        AposRight(AposLeft(AposBoth(StripAngles(StripBrackets(t)))))))))

\* sanitize_ai_text
sanitize_ai_text(t) ==
    IF t = <<>> THEN <<>> ELSE Strip(CollapseSpace(StripAngles(StripBrackets(t))))

(***************************************************************************)
(* JSON values as the json module returns them.  None (a failed whole-body *)
(* parse, an absent dict key) and JSON null are the same Python value.     *)
(***************************************************************************)
JNull == [t |-> "null", val |-> 0]

JBool(b) == [t |-> "bool", val |-> b]

JNum(n) == [t |-> "num", val |-> n]

JStr(s) == [t |-> "str", val |-> s]

JArr(items) == [t |-> "arr", val |-> items]

JObj(pairs) == [t |-> "obj", val |-> pairs]

Pair(key, value) == [k |-> key, v |-> value]

\* Python truthiness: None, False, 0, "", [] and {} are falsy
Truthy(x) ==
    CASE x.t = "null" -> FALSE
      [] x.t = "bool" -> x.val
      [] x.t = "num"  -> x.val # 0
      [] OTHER        -> x.val # <<>>

\* dict.get(key): the value of the last pair with that key, None when absent
Get(obj, key) ==
    LET hits == {i \in 1..Len(obj.val) : obj.val[i].k = key}
    IN  IF hits = {} THEN JNull
        ELSE obj.val[CHOOSE i \in hits : \A j \in hits : j <= i].v

\* x or {}
OrEmptyDict(x) == IF Truthy(x) THEN x ELSE JObj(<<>>)

IsNonEmptyStr(x) == x.t = "str" /\ x.val # <<>>

(***************************************************************************)
(* json.loads / JSONDecoder.raw_decode on the texts the model generates:   *)
(* objects, arrays, strings with the escapes \" \\ \/ \n \t, integers and  *)
(* the literals null, true, false.                                         *)
(***************************************************************************)
ParseFail == [ok |-> FALSE, val |-> JNull, pos |-> 0]

ParseOk(v, p) == [ok |-> TRUE, val |-> v, pos |-> p]

\* json's WHITESPACE
IsJsonWs(c) == c \in {" ", "\t", "\n", "\r"}

SkipWs(s, i) ==
    LET stop == {k \in i..Len(s) : ~IsJsonWs(s[k])}
    IN  IF stop = {} THEN Len(s) + 1 ELSE MinOf(stop)

CharAt(s, i) == IF i >= 1 /\ i <= Len(s) THEN s[i] ELSE ""

HasAt(s, i, w) ==
    /\ i + Len(w) - 1 <= Len(s)
    /\ \A k \in 1..Len(w) : s[i + k - 1] = w[k]

Unescape(c) ==
    CASE c = "n" -> "\n"
      [] c = "t" -> "\t"
      [] OTHER   -> c

\* py_scanstring, i just after the opening quote
RECURSIVE ScanString(_, _, _)
ScanString(s, i, acc) ==
    IF i > Len(s) THEN ParseFail
    ELSE IF s[i] = "\"" THEN ParseOk(JStr(acc), i + 1)
    ELSE IF s[i] = "\\"
         THEN IF CharAt(s, i + 1) \in {"\"", "\\", "/", "n", "t"}
              THEN ScanString(s, i + 2, Append(acc, Unescape(s[i + 1])))
              ELSE ParseFail
    ELSE IF s[i] \in {"\n", "\t", "\r"} THEN ParseFail
    ELSE ScanString(s, i + 1, Append(acc, s[i]))

DigitVal(c) == (CHOOSE k \in DOMAIN Digits : Digits[k] = c) - 1

IsDigit(c) == c \in Range(Digits)

RECURSIVE ScanDigits(_, _, _)
ScanDigits(s, i, acc) ==
    IF IsDigit(CharAt(s, i))
    THEN ScanDigits(s, i + 1, 10 * acc + DigitVal(s[i]))
    ELSE ParseOk(JNum(acc), i)

\* NUMBER_RE, integer part: -?(0|[1-9]\d*)
ScanNumber(s, i) ==
    LET j == IF CharAt(s, i) = "-" THEN i + 1 ELSE i
        r == IF CharAt(s, j) = "0" THEN ParseOk(JNum(0), j + 1)
             ELSE IF IsDigit(CharAt(s, j)) THEN ScanDigits(s, j, 0)
             ELSE ParseFail
    IN  IF r.ok /\ j > i THEN ParseOk(JNum(0 - r.val.val), r.pos) ELSE r

RECURSIVE ParseValue(_, _)
RECURSIVE ParseMembers(_, _, _)
RECURSIVE ParseItems(_, _, _)

\* JSONObject's loop, i at the key's opening quote
ParseMembers(s, i, acc) ==
    IF CharAt(s, i) # "\"" THEN ParseFail
    ELSE LET key == ScanString(s, i + 1, <<>>)
             col == SkipWs(s, key.pos)
             value == ParseValue(s, SkipWs(s, col + 1))
             e == SkipWs(s, value.pos)
             pairs == Append(acc, Pair(key.val.val, value.val))
         IN  IF ~key.ok \/ CharAt(s, col) # ":" THEN ParseFail
             ELSE IF ~value.ok THEN ParseFail
             ELSE IF CharAt(s, e) = "}" THEN ParseOk(JObj(pairs), e + 1)
             ELSE IF CharAt(s, e) = "," THEN ParseMembers(s, SkipWs(s, e + 1), pairs)
             ELSE ParseFail

\* JSONArray's loop, i at the next element
ParseItems(s, i, acc) ==
    LET value == ParseValue(s, i)
        e == SkipWs(s, value.pos)
        items == Append(acc, value.val)
    IN  IF ~value.ok THEN ParseFail
        ELSE IF CharAt(s, e) = "]" THEN ParseOk(JArr(items), e + 1)
        ELSE IF CharAt(s, e) = "," THEN ParseItems(s, SkipWs(s, e + 1), items)
        ELSE ParseFail

\* scan_once
ParseValue(s, i) ==
    LET c == CharAt(s, i)
    IN  CASE c = "\"" -> ScanString(s, i + 1, <<>>)
          [] c = "{"  -> IF CharAt(s, SkipWs(s, i + 1)) = "}"
                         THEN ParseOk(JObj(<<>>), SkipWs(s, i + 1) + 1)
                         ELSE ParseMembers(s, SkipWs(s, i + 1), <<>>)
          [] c = "["  -> IF CharAt(s, SkipWs(s, i + 1)) = "]"
                         THEN ParseOk(JArr(<<>>), SkipWs(s, i + 1) + 1)
                         ELSE ParseItems(s, SkipWs(s, i + 1), <<>>)
          [] c = "n" /\ HasAt(s, i, <<"n", "u", "l", "l">>) -> ParseOk(JNull, i + 4)
          [] c = "t" /\ HasAt(s, i, <<"t", "r", "u", "e">>) -> ParseOk(JBool(TRUE), i + 4)
          [] c = "f" /\ HasAt(s, i, <<"f", "a", "l", "s", "e">>) -> ParseOk(JBool(FALSE), i + 5)
          [] OTHER    -> ScanNumber(s, i)

\* json.loads(s) / resp.json(): one value, whitespace around it, nothing else
Loads(s) ==
    LET r == ParseValue(s, SkipWs(s, 1))
    IN  IF r.ok /\ SkipWs(s, r.pos) = Len(s) + 1 THEN r ELSE ParseFail

\* json.JSONDecoder().raw_decode(s): the first value at index 0, the rest ignored
RawDecode(s) == ParseValue(s, 1)

\* str.splitlines() on texts whose only line break is "\n"
RECURSIVE SplitLines(_)
SplitLines(s) ==
    IF s = <<>> THEN <<>>
    ELSE LET brk == {k \in 1..Len(s) : s[k] = NL}
         IN  IF brk = {} THEN <<s>>
             ELSE <<SubSeq(s, 1, MinOf(brk) - 1)>> \o SplitLines(From(s, MinOf(brk) + 1))

\* ''.join(pieces)
RECURSIVE Join(_)
Join(ps) == IF ps = <<>> THEN <<>> ELSE Head(ps) \o Join(Tail(ps))

(***************************************************************************)
(* collect_from_obj (src/app.py 234-257).  The result carries the pieces   *)
(* appended by the visit and whether the visit raised.                     *)
(***************************************************************************)
KeyMessage == <<"m", "e", "s", "s", "a", "g", "e">>

KeyContent == <<"c", "o", "n", "t", "e", "n", "t">>

KeyText == <<"t", "e", "x", "t">>

KeyReply == <<"r", "e", "p", "l", "y">>

KeyChoices == <<"c", "h", "o", "i", "c", "e", "s">>

Collected(ps) == [raised |-> FALSE, out |-> ps]

Raised == [raised |-> TRUE, out |-> <<>>]

\* r1 followed by r2, unless r1 raised
AndThen(r1, r2) ==
    IF r1.raised THEN r1 ELSE [raised |-> r2.raised, out |-> r1.out \o r2.out]

\* [x] when x is a non-empty string, else nothing:  isinstance(x, str) and x
StrPiece(x) == IF IsNonEmptyStr(x) THEN <<x.val>> ELSE <<>>

\* lines 250-255, one element of choices; (ch.get('message') or {}).get raises
\* AttributeError when message is a truthy value that is not a dict
collect_choice(ch) ==
    IF ch.t # "obj" THEN Collected(<<>>)
    ELSE IF OrEmptyDict(Get(ch, KeyMessage)).t # "obj" THEN Raised
    ELSE Collected(StrPiece(Get(OrEmptyDict(Get(ch, KeyMessage)), KeyContent))
                   \o StrPiece(Get(ch, KeyText)))

RECURSIVE collect_choices(_)
collect_choices(chs) ==
    IF chs = <<>> THEN Collected(<<>>)
    ELSE AndThen(collect_choice(Head(chs)), collect_choices(Tail(chs)))

\* lines 238-242
collect_message(obj) ==
    IF OrEmptyDict(Get(obj, KeyMessage)).t = "obj"
    THEN StrPiece(Get(OrEmptyDict(Get(obj, KeyMessage)), KeyContent))
    ELSE <<>>

\* lines 243-246
collect_direct(obj) ==
    StrPiece(Get(obj, KeyContent)) \o StrPiece(Get(obj, KeyText)) \o StrPiece(Get(obj, KeyReply))

collect_from_obj(obj) ==
    IF ~Truthy(obj) THEN Collected(<<>>)
    ELSE IF obj.t = "obj"
         THEN AndThen(Collected(collect_message(obj) \o collect_direct(obj)),
                      IF Get(obj, KeyChoices).t = "arr"
                      THEN collect_choices(Get(obj, KeyChoices).val)
                      ELSE Collected(<<>>))
    ELSE IF obj.t = "str" THEN Collected(<<obj.val>>)
    ELSE Collected(<<>>)

RECURSIVE collect_all(_)
collect_all(items) ==
    IF items = <<>> THEN Collected(<<>>)
    ELSE AndThen(collect_from_obj(Head(items)), collect_all(Tail(items)))

(***************************************************************************)
(* Extraction in api_proxy_chat (src/app.py 259-287)                       *)
(***************************************************************************)

\* lines 260-263: resp.json(), None when it raises
WholeJson(body) == Loads(body).val

\* lines 265-270
WholePass(body) ==
    IF ~Truthy(WholeJson(body)) THEN Collected(<<>>)
    ELSE IF WholeJson(body).t = "arr" THEN collect_all(WholeJson(body).val)
    ELSE collect_from_obj(WholeJson(body))

\* lines 274-287, one line of the body
collect_line(line) ==
    IF Strip(line) = <<>> THEN Collected(<<>>)
    ELSE IF Loads(Strip(line)).ok THEN collect_from_obj(Loads(Strip(line)).val)
    ELSE IF RawDecode(Strip(line)).ok THEN collect_from_obj(RawDecode(Strip(line)).val)
    ELSE Collected(<<Strip(line)>>)

RECURSIVE collect_lines(_)
collect_lines(lines) ==
    IF lines = <<>> THEN Collected(<<>>)
    ELSE AndThen(collect_line(Head(lines)), collect_lines(Tail(lines)))

\* line 272: the line pass runs when the whole-body pass left pieces empty and
\* the body is not empty
LinePassRuns(first, body) == ~first.raised /\ first.out = <<>> /\ body # <<>>

\* lines 259-287: pieces after both passes
Extract(first, body) ==
    IF LinePassRuns(first, body) THEN collect_lines(SplitLines(body)) ELSE first

RECURSIVE JoinSpaced(_)
JoinSpaced(ps) ==
    IF ps = <<>> THEN <<>>
    ELSE IF Len(ps) = 1 THEN Head(ps)
    ELSE Head(ps) \o <<" ">> \o JoinSpaced(Tail(ps))

\* Assemble joining the pieces with a space
AssembleSpaced(ps, body) == IF ps # <<>> THEN Strip(JoinSpaced(ps)) ELSE Strip(body)

\* lines 289-292
Assemble(ps, body) == IF ps # <<>> THEN Strip(Join(ps)) ELSE Strip(body)

BodyLimit == 2000

\* text_body[:2000]
Truncate(body) == SubSeq(body, 1, IF Len(body) < BodyLimit THEN Len(body) ELSE BodyLimit)

(***************************************************************************)
(* Responses of the handler.  error is "" on success; status and body are  *)
(* the diagnostics of no_reply_extracted.                                  *)
(***************************************************************************)
NoOutcome ==
    [code |-> 0, error |-> "", reply |-> <<>>, detail |-> "", status |-> 0, body |-> <<>>]

MissingMessages == [NoOutcome EXCEPT !.code = 400, !.error = "missing_messages"]

ConnectionFailed(e) ==
    [NoOutcome EXCEPT !.code = 502, !.error = "connection_failed", !.detail = e]

\* an exception that no handler catches: Flask answers 500
InternalError == [NoOutcome EXCEPT !.code = 500, !.error = "internal_server_error"]

\* Respond without the emptiness test of line 304
RespondAlwaysOk(text, st, body) == [NoOutcome EXCEPT !.code = 200, !.reply = text]

\* lines 304-307
Respond(text, st, body) ==
    IF text = <<>>
    THEN [NoOutcome EXCEPT !.code = 502, !.error = "no_reply_extracted",
                           !.status = st, !.body = Truncate(body)]
    ELSE [NoOutcome EXCEPT !.code = 200, !.reply = text]

(***************************************************************************)
(* Request side of api_proxy_chat (src/app.py 203-219)                     *)
(***************************************************************************)

\* lines 204-207: environment overrides; an unset variable is the empty text
ApplyEnv(cfg, env) ==
    [ollama_host  |-> IF env.host # <<>> THEN JStr(env.host) ELSE cfg.ollama_host,
     ollama_model |-> IF env.model # <<>> THEN JStr(env.model) ELSE cfg.ollama_model]

\* a or b
Or(a, b) == IF Truthy(a) THEN a ELSE b

\* line 210
ReqModel(req, cfg) == Or(req.model, cfg.ollama_model)

\* the test of line 213 rejecting only an absent messages key
MessagesAbsentOnly(req) == req.messages.t = "null"

\* line 211 and 213:  messages = body.get('messages') or [];  not messages
MessagesMissing(req) == ~Truthy(req.messages)

SchemeHttp == <<"h", "t", "t", "p", ":", "/", "/">>

SchemeHttps == <<"h", "t", "t", "p", "s", ":", "/", "/">>

DefaultPort == <<":", "1", "1", "4", "3", "4">>

DefaultHost == <<"l", "o", "c", "a", "l", "h", "o", "s", "t">> \o DefaultPort

ChatPath == <<"/", "a", "p", "i", "/", "c", "h", "a", "t">>

\* str.rstrip('/')
RECURSIVE RStripSlash(_)
RStripSlash(s) ==
    IF s # <<>> /\ s[Len(s)] = "/" THEN RStripSlash(SubSeq(s, 1, Len(s) - 1)) ELSE s

\* build_ollama_api_url
build_ollama_api_url(cfg) ==
    LET given == Strip(Or(cfg.ollama_host, JStr(<<>>)).val)
        host  == IF given = <<>> THEN DefaultHost ELSE given
        base  == IF HasAt(host, 1, SchemeHttp) \/ HasAt(host, 1, SchemeHttps)
                 THEN RStripSlash(host)
                 ELSE IF ":" \notin Range(host)
                      THEN SchemeHttp \o host \o DefaultPort
                      ELSE SchemeHttp \o host
    IN  base \o ChatPath

\* lines 216-219: the arguments of requests.post
Outbound(req, cfg) ==
    [url      |-> build_ollama_api_url(cfg),
     model    |-> ReqModel(req, cfg),
     messages |-> req.messages,
     header   |-> Or(ReqModel(req, cfg), JStr(<<>>))]

(***************************************************************************)
(* Inputs: requests, configurations, environments                          *)
(***************************************************************************)
ChatMessage == JObj(<<Pair(<<"r", "o", "l", "e">>, JStr(<<"u">>)), Pair(KeyContent, JStr(<<"h", "i">>))>>)

\* body.get('model'): absent, a name, the empty string
ReqModels == {JNull, JStr(<<"r">>), JStr(<<>>)}

\* body.get('messages'): absent, empty, or holding something
EmptyMessages == {JNull, JArr(<<>>), JStr(<<>>)}

SomeMessages == {JArr(<<ChatMessage>>), JArr(<<ChatMessage, ChatMessage>>), JStr(<<"h", "i">>)}

AllRequests == [model : ReqModels, messages : EmptyMessages \cup SomeMessages]

ConfigHosts ==
    {JNull, JStr(<<"h">>), JStr(<<"h", ":", "1">>), JStr(SchemeHttp \o <<"h", "/">>)}

AllConfigs == [ollama_host : ConfigHosts, ollama_model : {JNull, JStr(<<"c">>)}]

AllEnvs == [host : {<<>>, <<"e">>}, model : {<<>>, <<"m">>}]

NoEnv == [host |-> <<>>, model |-> <<>>]

DefaultConfig == [ollama_host |-> JNull, ollama_model |-> JStr(<<"c">>)]

FewRequests == [model : {JNull}, messages : {JArr(<<>>), JArr(<<ChatMessage>>)}]

\* str(e) of the requests.RequestException
TransportErrors == {"connection refused", "read timed out"}

\* upstream HTTP statuses
Statuses == {200, 500}

(***************************************************************************)
(* Inputs: upstream response bodies.  Dump writes a JSON value as text.    *)
(***************************************************************************)
Absent == [t |-> "absent", val |-> 0]

RECURSIVE DropAbsent(_)
DropAbsent(pairs) ==
    IF pairs = <<>> THEN <<>>
    ELSE IF Head(pairs).v.t = "absent" THEN DropAbsent(Tail(pairs))
    ELSE <<Head(pairs)>> \o DropAbsent(Tail(pairs))

\* an object holding the pairs whose value is present
MkObj(pairs) == JObj(DropAbsent(pairs))

EscapeChar(c) ==
    CASE c = "\"" -> <<"\\", "\"">>
      [] c = "\\" -> <<"\\", "\\">>
      [] c = "\n" -> <<"\\", "n">>
      [] c = "\t" -> <<"\\", "t">>
      [] OTHER    -> <<c>>

RECURSIVE EscapeText(_)
EscapeText(s) == IF s = <<>> THEN <<>> ELSE EscapeChar(Head(s)) \o EscapeText(Tail(s))

Quote(s) == <<"\"">> \o EscapeText(s) \o <<"\"">>

RECURSIVE DumpNat(_)
DumpNat(n) == IF n < 10 THEN <<Digits[n + 1]>> ELSE DumpNat(n \div 10) \o <<Digits[(n % 10) + 1]>>

RECURSIVE Dump(_)
RECURSIVE DumpItems(_)
RECURSIVE DumpPairs(_)

DumpItems(items) ==
    IF items = <<>> THEN <<>>
    ELSE Dump(Head(items)) \o (IF Len(items) > 1 THEN <<",">> ELSE <<>>) \o DumpItems(Tail(items))

DumpPairs(pairs) ==
    IF pairs = <<>> THEN <<>>
    ELSE Quote(Head(pairs).k) \o <<":">> \o Dump(Head(pairs).v)
         \o (IF Len(pairs) > 1 THEN <<",">> ELSE <<>>) \o DumpPairs(Tail(pairs))

Dump(x) ==
    CASE x.t = "null" -> <<"n", "u", "l", "l">>
      [] x.t = "bool" -> IF x.val THEN <<"t", "r", "u", "e">> ELSE <<"f", "a", "l", "s", "e">>
      [] x.t = "num"  -> IF x.val < 0 THEN <<"-">> \o DumpNat(0 - x.val) ELSE DumpNat(x.val)
      [] x.t = "str"  -> Quote(x.val)
      [] x.t = "arr"  -> <<"[">> \o DumpItems(x.val) \o <<"]">>
      [] OTHER        -> <<"{">> \o DumpPairs(x.val) \o <<"}">>

\* all sequences over S of length at most n
SeqsUpTo(S, n) == UNION {[1..k -> S] : k \in 0..n}

TextA == <<"a">>

TextB == <<"b">>

TextC == <<"c">>

\* a bracket pair whose delimiters are on different lines
TextTagLines == <<"[", "a", "\n", "b", "]">>

\* an angle pair whose delimiters are on different lines, and a tag on one line
TextAngleLines == <<"<", "i", ">", "a", "<", "\n", ">">>

\* text with whitespace at both ends
TextPadded == <<" ", "a", "\n">>

\* a tag alone: sanitizes to the empty text
TextTag == <<"[", "x", "]">>

Content(x) == MkObj(<<Pair(KeyContent, x)>>)

\* values of the key message
MessageVals ==
    {Absent, JStr(TextA), JNum(1), Content(JStr(TextA)), Content(JStr(<<>>)), Content(JNum(1))}

\* values of the key content
ContentVals ==
    {Absent, JStr(<<>>), JStr(TextB), JStr(TextTagLines), JStr(TextAngleLines),
     JStr(TextPadded), JStr(TextTag), JNum(1)}

\* values of the key text
TextVals == {Absent, JStr(TextC), JStr(<<>>)}

\* values of the key reply
ReplyVals == {Absent, JStr(<<"d">>)}

\* objects with the keys message, content, text, reply
DirectObjects ==
    {MkObj(<<Pair(KeyMessage, m), Pair(KeyContent, c), Pair(KeyText, x), Pair(KeyReply, r)>>) :
        m \in MessageVals, c \in ContentVals, x \in TextVals, r \in ReplyVals}

\* elements of choices
ChoiceElems ==
    {MkObj(<<Pair(KeyMessage, Content(JStr(TextA)))>>),
     MkObj(<<Pair(KeyText, JStr(TextC))>>),
     MkObj(<<Pair(KeyMessage, Content(JStr(TextA))), Pair(KeyText, JStr(TextC))>>),
     MkObj(<<Pair(KeyMessage, JStr(TextA))>>),
     MkObj(<<Pair(KeyMessage, JNum(1)), Pair(KeyText, JStr(TextC))>>),
     MkObj(<<Pair(KeyMessage, JNull), Pair(KeyText, JStr(TextC))>>),
     MkObj(<<Pair(KeyMessage, Content(JNum(1))), Pair(KeyText, JStr(<<>>))>>),
     JStr(TextA)}

MaxChoices == 2

\* objects with the key choices, with or without the key content
ChoiceObjects ==
    {MkObj(<<Pair(KeyContent, c), Pair(KeyChoices, chs)>>) :
        c \in {Absent, JStr(TextB)},
        chs \in {JStr(TextA)} \cup {JArr(q) : q \in SeqsUpTo(ChoiceElems, MaxChoices)}}

\* elements of a top-level array
ArrayItems ==
    {JStr(<<"f">>), JStr(TextTag), JNum(1), JNull, Content(JStr(TextB)),
     MkObj(<<Pair(KeyChoices, JArr(<<MkObj(<<Pair(KeyMessage, JStr(TextA))>>)>>))>>),
     JArr(<<JStr(TextA)>>)}

MaxItems == 2

TopArrays == {JArr(q) : q \in SeqsUpTo(ArrayItems, MaxItems)}

TopAtoms == {JStr(TextA), JStr(<<>>), JNum(0), JNum(1), JNull, JBool(TRUE), JBool(FALSE)}

\* bodies that are one JSON document
DocBodies == {Dump(x) : x \in DirectObjects \cup ChoiceObjects \cup TopArrays \cup TopAtoms}

\* lines of a newline-delimited body: JSON values, JSON followed by other text,
\* plain text, blank lines
LineTexts ==
    {Dump(Content(JStr(TextA))),
     Dump(Content(JStr(TextB))) \o <<" ", "x">>,
     Dump(MkObj(<<Pair(<<"x">>, JNum(1))>>)),
     Dump(MkObj(<<Pair(KeyChoices, JArr(<<MkObj(<<Pair(KeyMessage, JStr(TextA))>>)>>))>>)),
     Dump(JStr(TextA)),
     Dump(JNum(1)),
     <<"h", "i">>,
     <<" ", "a", " ">>,
     TextTag,
     <<"[", "1">>,
     <<" ">>,
     <<>>}

MaxLines == 2

RECURSIVE JoinLines(_)
JoinLines(ls) ==
    IF ls = <<>> THEN <<>>
    ELSE IF Len(ls) = 1 THEN Head(ls)
    ELSE Head(ls) \o <<NL>> \o JoinLines(Tail(ls))

LineBodies == {JoinLines(q) : q \in SeqsUpTo(LineTexts, MaxLines)}

\* a blank body one character longer than the diagnostic copy of line 305
LongBlank == [i \in 1..(BodyLimit + 1) |-> " "]

AllBodies == DocBodies \cup LineBodies \cup {LongBlank}

FewBodies == {<<>>, Dump(Content(JStr(TextA))), <<"h", "i">>, TextTag}

(***************************************************************************)
(* api_proxy_chat as actions: up to requests.post, and after it            *)
(***************************************************************************)
NoRequest == [model |-> JNull, messages |-> JNull]

ProxyIdle ==
    /\ pc = "idle"
    /\ request = NoRequest
    /\ sent = <<>>
    /\ status = 0
    /\ text_body = <<>>
    /\ jr = JNull
    /\ whole = Collected(<<>>)
    /\ lineRan = FALSE
    /\ pieces = Collected(<<>>)
    /\ stage = "none"
    /\ reply_text = <<>>
    /\ sanitized = <<>>
    /\ outcome = NoOutcome

\* the locals of a fresh invocation
FreshLocals ==
    /\ status' = 0
    /\ text_body' = <<>>
    /\ jr' = JNull
    /\ whole' = Collected(<<>>)
    /\ lineRan' = FALSE
    /\ pieces' = Collected(<<>>)
    /\ stage' = "none"
    /\ reply_text' = <<>>
    /\ sanitized' = <<>>

\* lines 203-222: a request arrives; it is rejected, or requests.post is entered
ProxyChatCall(req, cfg, env) ==
    /\ pc \in {"idle", "done"}
    /\ request' = req
    /\ FreshLocals
    /\ IF MessagesMissing(req)
       THEN /\ sent' = <<>>
            /\ outcome' = MissingMessages
            /\ pc' = "done"
       ELSE /\ sent' = <<Outbound(req, ApplyEnv(cfg, env))>>
            /\ outcome' = NoOutcome
            /\ pc' = "waiting"
    /\ UNCHANGED <<sanVars, sessVars>>

\* an except branch that posts once more before giving up
OnRequestExceptionRetry(log, e) ==
    [sent |-> Append(log, log[Len(log)]), outcome |-> ConnectionFailed(e), pc |-> "done"]

\* lines 223-225: what the except branch leaves behind
OnRequestException(log, e) == [sent |-> log, outcome |-> ConnectionFailed(e), pc |-> "done"]

\* requests.post raises requests.RequestException
TransportError(e) ==
    /\ pc = "waiting"
    /\ sent' = OnRequestException(sent, e).sent
    /\ outcome' = OnRequestException(sent, e).outcome
    /\ pc' = OnRequestException(sent, e).pc
    /\ UNCHANGED <<request, status, text_body, jr, whole, lineRan, pieces, stage, reply_text, sanitized>>
    /\ UNCHANGED <<sanVars, sessVars>>

\* lines 227-307: requests.post returns a response
UpstreamResponse(st, body) ==
    /\ pc = "waiting"
    /\ status' = st
    /\ text_body' = body
    /\ jr' = WholeJson(body)
    /\ whole' = WholePass(body)
    /\ lineRan' = LinePassRuns(whole', body)
    /\ pieces' = Extract(whole', body)
    /\ IF pieces'.raised
       THEN /\ stage' = "raised"
            /\ reply_text' = <<>>
            /\ sanitized' = <<>>
            /\ outcome' = InternalError
       ELSE /\ stage' = "sanitized"
            /\ reply_text' = Assemble(pieces'.out, body)
            /\ sanitized' = Sanitize(reply_text')
            /\ outcome' = Respond(sanitized', st, body)
    /\ pc' = "done"
    /\ UNCHANGED <<request, sent>>
    /\ UNCHANGED <<sanVars, sessVars>>

SanIdle ==
    /\ sanFn = "inline"
    /\ sanPc = "input"
    /\ sanX = <<>>
    /\ sanY = <<>>
    /\ sanZ = <<>>

(***************************************************************************)
(* /api/people and /api/discard (src/app.py 123-148)                       *)
(***************************************************************************)
MaxPeople == 3

\* the persons of the data file: ids "1".."n", each marked special="self" or not
PeopleData ==
    UNION {{[i \in 1..n |-> [id |-> ToString(i), special |-> f[i]]] : f \in [1..n -> {"self", ""}]} :
           n \in 0..MaxPeople}

\* body.get('id') of /api/discard: an id of the data, another id, or nothing ("")
PidInputs == {ToString(i) : i \in 1..MaxPeople} \cup {"x", ""}

NoSessOut == [kind |-> "none", code |-> 0, people |-> <<>>, before |-> <<>>, discarded |-> <<>>]

SessIdle ==
    /\ people = <<>>
    /\ discarded = <<>>
    /\ sessOut = NoSessOut

RECURSIVE Filter(_, _, _)
\* [p for p in ps if p.special != 'self' and p.id not in dis]
Filter(ps, dis, skipDiscarded) ==
    IF ps = <<>> THEN <<>>
    ELSE IF Head(ps).special # "self" /\ (~skipDiscarded \/ Head(ps).id \notin Range(dis))
         THEN <<Head(ps)>> \o Filter(Tail(ps), dis, skipDiscarded)
         ELSE Filter(Tail(ps), dis, skipDiscarded)

\* api_people without the reshuffle of lines 128-131
ReshuffleNever(ps, dis) == [discarded |-> dis, candidates |-> Filter(ps, dis, TRUE)]

\* lines 127-131: the session list and the candidates after the reshuffle test
Reshuffle(ps, dis) ==
    IF Filter(ps, dis, TRUE) = <<>>
    THEN [discarded |-> <<>>, candidates |-> Filter(ps, dis, FALSE)]
    ELSE [discarded |-> dis, candidates |-> Filter(ps, dis, TRUE)]

\* the orders random.shuffle can leave a list in
Shuffles(q) ==
    {[i \in 1..Len(q) |-> q[f[i]]] :
        f \in {g \in [1..Len(q) -> 1..Len(q)] : \A i, j \in 1..Len(q) : g[i] = g[j] => i = j}}

\* api_people
ApiPeople ==
    /\ discarded' = Reshuffle(people, discarded).discarded
    /\ \E order \in Shuffles(Reshuffle(people, discarded).candidates) :
          sessOut' = [kind |-> "people", code |-> 200, people |-> order,
                      before |-> discarded, discarded |-> <<>>]
    /\ UNCHANGED people
    /\ UNCHANGED <<proxyVars, sanVars>>

\* lines 144-147
Discard(dis, pid) == IF pid \notin Range(dis) THEN Append(dis, pid) ELSE dis

\* api_discard
ApiDiscard(pid) ==
    /\ IF pid = ""
       THEN /\ sessOut' = [NoSessOut EXCEPT !.kind = "discard", !.code = 400]
            /\ UNCHANGED discarded
       ELSE /\ discarded' = Discard(discarded, pid)
            /\ sessOut' = [NoSessOut EXCEPT !.kind = "discard", !.code = 200,
                                            !.before = discarded, !.discarded = discarded']
    /\ UNCHANGED people
    /\ UNCHANGED <<proxyVars, sanVars>>

SessInit ==
    /\ ProxyIdle
    /\ SanIdle
    /\ people \in PeopleData
    /\ discarded = <<>>
    /\ sessOut = NoSessOut

SessNext == ApiPeople \/ \E pid \in PidInputs : ApiDiscard(pid)

SpecSession == SessInit /\ [][SessNext]_vars

\* the extraction pipeline over every modelled upstream body
Init == ProxyIdle /\ SanIdle /\ SessIdle

Next ==
    \/ \E req \in FewRequests : ProxyChatCall(req, DefaultConfig, NoEnv)
    \/ \E e \in TransportErrors : TransportError(e)
    \/ \E st \in Statuses, body \in AllBodies : UpstreamResponse(st, body)

Spec == Init /\ [][Next]_vars

\* the request side over every modelled request, configuration and environment
RequestNext ==
    \/ \E req \in AllRequests, cfg \in AllConfigs, env \in AllEnvs : ProxyChatCall(req, cfg, env)
    \/ \E e \in TransportErrors : TransportError(e)
    \/ \E st \in Statuses, body \in FewBodies : UpstreamResponse(st, body)

SpecRequest == Init /\ [][RequestNext]_vars

(***************************************************************************)
(* Specification of the sanitizers as pure functions                       *)
(***************************************************************************)
SanAlphabet == {"a", "A", " ", "\n", "[", "]", "<", ">", "'", "."}

ApplySanitizer(fn, t) == IF fn = "ai" THEN sanitize_ai_text(t) ELSE Sanitize(t)

SanInit ==
    /\ ProxyIdle
    /\ SessIdle
    /\ sanFn \in {"inline", "ai"}
    /\ sanPc = "input"
    /\ sanX \in TextsUpTo(SanAlphabet, MaxTextLen)
    /\ sanY = <<>>
    /\ sanZ = <<>>

SanitizeInput ==
    /\ sanPc = "input"
    /\ sanY' = ApplySanitizer(sanFn, sanX)
    /\ sanPc' = "once"
    /\ UNCHANGED <<sanFn, sanX, sanZ>>
    /\ UNCHANGED <<proxyVars, sessVars>>

SanitizeOutput ==
    /\ sanPc = "once"
    /\ sanZ' = ApplySanitizer(sanFn, sanY)
    /\ sanPc' = "twice"
    /\ UNCHANGED <<sanFn, sanX, sanY>>
    /\ UNCHANGED <<proxyVars, sessVars>>

SanNext == SanitizeInput \/ SanitizeOutput

SpecSanitize == SanInit /\ [][SanNext]_vars

(***************************************************************************)
(* Claims                                                                  *)
(***************************************************************************)

\* the invocation received an upstream response
Received == pc = "done" /\ stage # "none"

\* C1: an empty sanitized text is never returned as a success: a 200 response
\* carries a non-empty reply, and whenever the sanitized text is empty the
\* response is no_reply_extracted with code 502, the upstream status and the
\* first (at most 2000) characters of the raw body.
C1_EmptyNeverSuccess ==
    /\ outcome.code = 200 => outcome.reply # <<>> /\ outcome.error = ""
    /\ (stage = "sanitized" /\ sanitized = <<>>) =>
          /\ outcome.code = 502
          /\ outcome.error = "no_reply_extracted"
          /\ outcome.status = status
          /\ Len(outcome.body) <= 2000
          /\ outcome.body = SubSeq(text_body, 1, Len(outcome.body))
          /\ (Len(text_body) <= 2000 => outcome.body = text_body)

\* an upstream 200 whose body of more than 2000 characters sanitizes to
\* nothing was answered 502 with a copy of 2000 characters
C1_Witness ==
    /\ Received
    /\ status = 200
    /\ Len(text_body) > 2000
    /\ stage = "sanitized"
    /\ sanitized = <<>>
    /\ outcome.error = "no_reply_extracted"
    /\ Len(outcome.body) = 2000

\* messages is missing (no key, null) or empty ([] or "")
IsEmptyMessages(m) == m.t = "null" \/ (m.t \in {"arr", "str"} /\ m.val = <<>>)

\* C2: when the request's messages is missing or empty the invocation ends
\* with missing_messages, code 400, and issues no outbound call, whatever the
\* configuration, the environment and the request's model are.
C2_MissingMessagesNoCall ==
    (pc # "idle" /\ IsEmptyMessages(request.messages)) =>
        /\ pc = "done"
        /\ outcome.code = 400
        /\ outcome.error = "missing_messages"
        /\ sent = <<>>
        /\ stage = "none"

\* a request with a model and an empty messages list was rejected
C2_Witness ==
    /\ pc = "done"
    /\ request.messages = JArr(<<>>)
    /\ request.model = JStr(<<"r">>)
    /\ outcome.error = "missing_messages"

\* C3: when messages is non-empty exactly one outbound call is issued; when
\* it fails at transport level the invocation ends with connection_failed,
\* code 502 and the transport error text, without a second call and without
\* extraction.
C3_OneCallNoRetry ==
    /\ (pc # "idle" /\ ~IsEmptyMessages(request.messages)) => Len(sent) = 1
    /\ outcome.error = "connection_failed" =>
          /\ pc = "done"
          /\ outcome.code = 502
          /\ outcome.detail \in TransportErrors
          /\ Len(sent) = 1
          /\ stage = "none"
          /\ pieces = Collected(<<>>)

\* a transport failure was answered
C3_Witness ==
    /\ pc = "done"
    /\ ~IsEmptyMessages(request.messages)
    /\ outcome.error = "connection_failed"
    /\ outcome.detail = "read timed out"
    /\ Len(sent) = 1

\* C4: extraction never fails: every received response ends in a 200 reply
\* or in no_reply_extracted.
C4_ExtractionNeverFails ==
    Received => (outcome.code = 200 \/ outcome.error = "no_reply_extracted")

\* C5: the sanitizer is idempotent: sanitizing its own output returns that
\* output unchanged.
C5_SanitizeIdempotent == sanPc = "twice" => sanZ = sanY

\* text t holds an open delimiter and, later, a close delimiter
HasDelimited(t, open, close) ==
    \E i, j \in 1..Len(t) : i < j /\ t[i] = open /\ t[j] = close

\* C6: a reply returned with code 200 holds no substring from "[" to a later
\* "]" and none from "<" to a later ">".
C6_ReplyHasNoTags ==
    outcome.code = 200 =>
        /\ ~HasDelimited(outcome.reply, "[", "]")
        /\ ~HasDelimited(outcome.reply, "<", ">")

\* the fragment the claim lets a value contribute: the value when it is a
\* string, empty strings included
AnyStr(x) == IF x.t = "str" THEN <<x.val>> ELSE <<>>

\* message.content of an object, when message is an object
ClaimedMessageContent(obj) ==
    IF Get(obj, KeyMessage).t = "obj" THEN AnyStr(Get(Get(obj, KeyMessage), KeyContent)) ELSE <<>>

RECURSIVE ClaimedChoices(_)
ClaimedChoices(chs) ==
    IF chs = <<>> THEN <<>>
    ELSE (IF Head(chs).t = "obj"
          THEN ClaimedMessageContent(Head(chs)) \o AnyStr(Get(Head(chs), KeyText))
          ELSE <<>>) \o ClaimedChoices(Tail(chs))

\* the fragments the claim has the matcher emit for an object
ClaimedFragments(obj) ==
    ClaimedMessageContent(obj)
    \o AnyStr(Get(obj, KeyContent)) \o AnyStr(Get(obj, KeyText)) \o AnyStr(Get(obj, KeyReply))
    \o (IF Get(obj, KeyChoices).t = "arr" THEN ClaimedChoices(Get(obj, KeyChoices).val) ELSE <<>>)

HasStringKey(obj) ==
    \E key \in {KeyContent, KeyText, KeyReply} : Get(obj, key).t = "str"

\* C7: for a body that parses to an object the matcher emits message.content
\* if a string, then content, text, reply when strings (empty ones included),
\* then for each element of choices its message.content and its text when
\* strings; an object with a string-valued key leaves the fragment sequence
\* non-empty, so the raw body is not used.
C7_MatcherEmits ==
    (Received /\ jr.t = "obj") =>
        /\ ~whole.raised
        /\ whole.out = ClaimedFragments(jr)
        /\ HasStringKey(jr) => (pieces.out # <<>> /\ reply_text = Strip(Join(pieces.out)))

\* C8: the assembled reply is the sanitizer applied to the concatenation of
\* the fragments, in order and without separator, when there are fragments,
\* and to the raw body when there are none; trimming first changes nothing.
C8_AssembledReply ==
    stage = "sanitized" =>
        sanitized = Sanitize(IF pieces.out # <<>> THEN Join(pieces.out) ELSE text_body)

\* two or more fragments whose concatenation has whitespace at an end were
\* assembled into a reply
C8_Witness ==
    /\ stage = "sanitized"
    /\ Len(pieces.out) >= 2
    /\ Strip(Join(pieces.out)) # Join(pieces.out)
    /\ outcome.code = 200

\* what the claim has one line contribute: nothing when blank, the matcher's
\* fragments when it parses, itself otherwise
RECURSIVE ClaimedLineFragments(_)
ClaimedLineFragments(lines) ==
    IF lines = <<>> THEN <<>>
    ELSE (IF Strip(Head(lines)) = <<>> THEN <<>>
          ELSE IF Loads(Strip(Head(lines))).ok
               THEN collect_from_obj(Loads(Strip(Head(lines))).val).out
          ELSE IF RawDecode(Strip(Head(lines))).ok
               THEN collect_from_obj(RawDecode(Strip(Head(lines))).val).out
          ELSE <<Strip(Head(lines))>>) \o ClaimedLineFragments(Tail(lines))

\* C9: the line pass runs exactly when the whole-body pass produced no
\* fragment and the body is not empty; fragments of the whole-body pass are
\* final; when the line pass runs every non-blank line contributes in order.
C9_PriorityOrder ==
    Received =>
        /\ lineRan <=> (whole.out = <<>> /\ text_body # <<>>)
        /\ whole.out # <<>> => (~pieces.raised /\ pieces.out = whole.out)
        /\ lineRan => (~pieces.raised /\ pieces.out = ClaimedLineFragments(SplitLines(text_body)))

NoDuplicates(q) == \A i, j \in 1..Len(q) : q[i] = q[j] => i = j

\* the ids of the persons not marked self
OtherIds == {people[i].id : i \in {k \in 1..Len(people) : people[k].special # "self"}}

\* C10: the session's discarded list never holds an id twice; /api/people
\* returns a non-empty list while the data holds a person not marked self;
\* when all of them were discarded it empties the list and returns them all.
C10_SessionCandidates ==
    /\ NoDuplicates(discarded)
    /\ sessOut.kind = "people" =>
          /\ OtherIds # {} => sessOut.people # <<>>
          /\ \A i \in 1..Len(sessOut.people) : sessOut.people[i].special # "self"
          /\ OtherIds \subseteq Range(sessOut.before) =>
                /\ discarded = <<>>
                /\ {sessOut.people[i].id : i \in 1..Len(sessOut.people)} = OtherIds
                /\ Len(sessOut.people) = Cardinality(OtherIds)

\* /api/people answered a session that had discarded both other persons
C10_Witness ==
    /\ sessOut.kind = "people"
    /\ Cardinality(OtherIds) = 2
    /\ OtherIds \subseteq Range(sessOut.before)
    /\ Len(sessOut.people) = 2
    /\ discarded = <<>>

====
